---- MODULE Spec2Model ----
(***************************************************************************)
(* Model of ftb's TableFormatter (src/src/lib.rs): format_table and        *)
(* format_document over texts.                                             *)
(*                                                                         *)
(* A text (Rust &str / String) is a sequence of characters.  A character   *)
(* is a one-character string, except for the three characters a TLA+       *)
(* string cannot hold, which are named by their code point:                *)
(*   "U+0060"  the backtick                                                *)
(*   "U+4E2D"  a CJK ideograph, display width 2                            *)
(*   "U+0301"  the combining acute accent, display width 0                 *)
(***************************************************************************)
EXTENDS Integers, Sequences, FiniteSets, TLC

VARIABLES
    cells,          \* TableFormatter.cells: Vec<Vec<String>>
    column_widths,  \* TableFormatter.column_widths: Vec<usize>
    pc,             \* "idle", or the position inside format_document
    arg,            \* the input text drawn at Init (pure-function specifications)
    call,           \* the call in progress or last completed: [op, text]
    result,         \* what the last call returned; "none" while it runs
    prev,           \* the kind of what the call before that one returned
    lines,          \* format_document: let lines
    i,              \* format_document: let mut i
    output          \* format_document: let mut output

vars == <<cells, column_widths, pc, arg, call, result, prev, lines, i, output>>

(***************************************************************************)
(* Characters and string primitives of the Rust standard library and of    *)
(* the unicode-width crate, as far as lib.rs uses them.                    *)
(***************************************************************************)
BACKTICK == "U+0060"
WIDE == "U+4E2D"
COMBINING == "U+0301"

\* char::is_whitespace, on the characters of the model
IsWhitespace(c) == c \in {" ", "\t", "\n", "\r"}

\* UnicodeWidthChar::width.  Control characters are left out on purpose:
\* lib.rs only measures trimmed cells, and the inputs of the model hold
\* control characters only where trim() removes them.
CharWidth(c) ==
    CASE c = WIDE -> 2
      [] c = COMBINING -> 0
      [] c \in {"|", "-", ":", " ", "a", "b", "c", "d", "e", "x", "y", BACKTICK} -> 1

\* UnicodeWidthStr::width
RECURSIVE Width(_)
Width(s) == IF s = <<>> THEN 0 ELSE CharWidth(Head(s)) + Width(Tail(s))

\* str::contains(char)
Contains(s, c) == \E k \in 1..Len(s) : s[k] = c

\* str::starts_with / str::ends_with
StartsWith(s, p) == Len(s) >= Len(p) /\ SubSeq(s, 1, Len(p)) = p
EndsWith(s, p) == Len(s) >= Len(p) /\ SubSeq(s, Len(s) - Len(p) + 1, Len(s)) = p

\* str::trim
RECURSIVE TrimStart(_)
TrimStart(s) ==
    IF s # <<>> /\ IsWhitespace(Head(s)) THEN TrimStart(Tail(s)) ELSE s
RECURSIVE TrimEnd(_)
TrimEnd(s) ==
    IF s # <<>> /\ IsWhitespace(s[Len(s)]) THEN TrimEnd(SubSeq(s, 1, Len(s) - 1)) ELSE s
Trim(s) == TrimEnd(TrimStart(s))

\* the indexes of the occurrences of c in s, in order
Occurrences(s, c) == SelectSeq([k \in 1..Len(s) |-> k], LAMBDA k : s[k] = c)

\* the pieces of s between the separators at the indexes seps
PiecesBetween(s, seps) ==
    <<>> \o [j \in 1..(Len(seps) + 1) |->
                SubSeq(s, IF j = 1 THEN 1 ELSE seps[j - 1] + 1,
                          IF j > Len(seps) THEN Len(s) ELSE seps[j] - 1)]

\* str::split(char): always at least one piece
Split(s, c) == PiecesBetween(s, Occurrences(s, c))

\* [String]::join(&str)
RECURSIVE Join(_, _)
Join(ss, sep) ==
    IF ss = <<>> THEN <<>>
    ELSE IF Len(ss) = 1 THEN ss[1]
    ELSE ss[1] \o sep \o Join(Tail(ss), sep)

\* str::lines: pieces end at "\n"; a "\r" right before that "\n" is dropped
\* too; a last piece without "\n" is kept as it is; no piece after a final "\n"
StripCR(s) == IF EndsWith(s, <<"\r">>) THEN SubSeq(s, 1, Len(s) - 1) ELSE s

\* the lines of s, whose line ends are at the indexes ends: one line before
\* every line end, and one after the last line end when text is left there
LinesEndingAt(s, ends) ==
    <<>> \o [j \in 1..(Len(ends) + IF (IF ends = <<>> THEN 0 ELSE ends[Len(ends)]) < Len(s)
                                    THEN 1 ELSE 0) |->
                IF j <= Len(ends)
                THEN StripCR(SubSeq(s, IF j = 1 THEN 1 ELSE ends[j - 1] + 1, ends[j] - 1))
                ELSE SubSeq(s, IF j = 1 THEN 1 ELSE ends[j - 1] + 1, Len(s))]

Lines(s) == LinesEndingAt(s, Occurrences(s, "\n"))

\* std::iter::repeat(c).take(n)
Repeat(c, n) == [k \in 1..n |-> c]

(***************************************************************************)
(* TableError and Result<String>                                           *)
(***************************************************************************)
MAX_ROWS == 100000
MAX_COLS == 1000
MAX_CELLS == 1000000

Ok(text) == [kind |-> "Ok", text |-> text]
MissingSeparator == [kind |-> "MissingSeparator"]
InvalidStructure(msg) == [kind |-> "InvalidStructure", msg |-> msg]
EmptyInput == [kind |-> "EmptyInput"]
TableTooLarge(rows, cols) ==
    [kind |-> "TableTooLarge", rows |-> rows, cols |-> cols,
     max_rows |-> MAX_ROWS, max_cols |-> MAX_COLS]

(***************************************************************************)
(* TableFormatter: the methods take the instance state                     *)
(* self = [cells, column_widths] and give the new one.                     *)
(***************************************************************************)
\* TableFormatter::new
NewFormatter == [cells |-> <<>>, column_widths |-> <<>>]

\* the largest of a non-empty set of numbers
Largest(S) == CHOOSE m \in S : \A x \in S : x <= m

\* get_column_widths: the loops push a width for every cell index a row
\* reaches first, so there are as many widths as the longest row has cells
ColumnCount(rows) == Largest({0} \cup {Len(rows[r]) : r \in 1..Len(rows)})

\* get_column_widths: the width pushed for column j (1-based) and then raised
\* by every wider cell is the largest width of the cells at index j
ColumnWidth(rows, j) ==
    Largest({Width(rows[r][j]) : r \in {q \in 1..Len(rows) : j <= Len(rows[q])}})

\* get_column_widths: the widths of the columns of the rows
ColumnWidths(rows) == <<>> \o [j \in 1..ColumnCount(rows) |-> ColumnWidth(rows, j)]

get_column_widths(self) == [self EXCEPT !.column_widths = ColumnWidths(<<>> \o self.cells)]

\* remove_empty_edge_columns, lines 343-356: s0 has its widths computed
RemoveLeadingColumn(s0) ==
    IF s0.column_widths[1] = 0
    THEN get_column_widths(
           [s0 EXCEPT !.cells =
              [r \in 1..Len(s0.cells) |->
                 IF s0.cells[r] # <<>> THEN Tail(s0.cells[r]) ELSE s0.cells[r]]])
    ELSE s0

\* remove_empty_edge_columns, lines 358-373
RemoveTrailingColumn(s1) ==
    IF s1.column_widths # <<>> /\ s1.column_widths[Len(s1.column_widths)] = 0
    THEN get_column_widths(
           [s1 EXCEPT !.cells =
              [r \in 1..Len(s1.cells) |->
                 IF Len(s1.cells[r]) = Len(s1.column_widths)
                 THEN SubSeq(s1.cells[r], 1, Len(s1.cells[r]) - 1) ELSE s1.cells[r]]])
    ELSE s1

\* remove_empty_edge_columns, lines 334-338, then the two removals
TrimEdgeColumns(s0) ==
    IF s0.column_widths = <<>> THEN s0 ELSE RemoveTrailingColumn(RemoveLeadingColumn(s0))

remove_empty_edge_columns(self) == TrimEdgeColumns(get_column_widths(self))

\* chars().all(|c| c == '-')
AllDashes(s) == \A k \in 1..Len(s) : s[k] = "-"

\* import_table: the closure mapped over the pieces of one row;
\* row_i is the (0-based) index of the line among table_rows
ParseCell(cell, row_i) ==
    LET trimmed == Trim(cell)
    IN  IF row_i = 1 /\ AllDashes(trimmed) /\ trimmed # <<>> THEN <<"-">> ELSE trimmed

ParseRow(row, row_i) ==
    LET pieces == Split(row, "|")
    IN  [k \in 1..Len(pieces) |-> ParseCell(pieces[k], row_i)]

\* skip_while(|line| !line.contains('|'))
RECURSIVE SkipLeading(_)
SkipLeading(ls) ==
    IF ls # <<>> /\ ~Contains(Head(ls), "|") THEN SkipLeading(Tail(ls)) ELSE ls

\* import_table, lines 302-306: the indexes (1-based) of the lines of
\* table_rows that hold a '|'; the others are passed over by continue
RowIndexes(table_rows) ==
    SelectSeq([k \in 1..Len(table_rows) |-> k], LAMBDA k : Contains(table_rows[k], "|"))

\* import_table, lines 308-322: the rows of the lines at the indexes kept,
\* each parsed with the index enumerate() gives its line
RowsAt(table_rows, kept) ==
    <<>> \o [n \in 1..Len(kept) |-> ParseRow(table_rows[kept[n]], kept[n] - 1)]

\* import_table: the loop over table_rows.enumerate(), pushing onto self.cells
PushRows(cs, table_rows) == cs \o RowsAt(table_rows, RowIndexes(table_rows))

\* import_table: [err, self]; err is "none" or the error returned
import_table(self, table) ==
    LET table_rows == SkipLeading(Lines(table))
    IN  IF table_rows = <<>>
        THEN [err |-> InvalidStructure("No table rows found in input"), self |-> self]
        ELSE [err |-> [kind |-> "none"],
              self |-> remove_empty_edge_columns(
                         [self EXCEPT !.cells = PushRows(self.cells, table_rows)])]

\* is_separator_row without its !cell.is_empty() test
is_separator_row_loose(self, row_index) ==
    IF row_index >= Len(self.cells) THEN FALSE
    ELSE LET row == self.cells[row_index + 1]
         IN  IF row = <<>> THEN FALSE
             ELSE \A k \in 1..Len(row) : AllDashes(row[k])

\* is_separator_row
is_separator_row(self, row_index) ==
    IF row_index >= Len(self.cells) THEN FALSE
    ELSE LET row == self.cells[row_index + 1]
         IN  IF row = <<>> THEN FALSE
             ELSE \A k \in 1..Len(row) : row[k] # <<>> /\ AllDashes(row[k])

\* add_missing_cell_columns adding nothing
add_missing_nothing(self) == self

\* add_missing_cell_columns
add_missing_cell_columns(self) ==
    LET num_columns == Len(self.column_widths)
    IN  [self EXCEPT !.cells =
           [r \in 1..Len(self.cells) |->
              IF Len(self.cells[r]) < num_columns
              THEN self.cells[r] \o [k \in 1..(num_columns - Len(self.cells[r])) |-> <<>>]
              ELSE self.cells[r]]]

\* pad_cells_for_output measuring the cell in characters, not in display columns
PadCellByChars(cell, target_width, row_i) ==
    LET current_width == Len(cell)
        padding == IF target_width > current_width THEN target_width - current_width ELSE 0
    IN  IF padding = 0 THEN cell
        ELSE IF row_i = 1 THEN cell \o Repeat("-", padding)
        ELSE cell \o Repeat(" ", padding)

\* pad_cells_for_output: one cell; row_i is 0-based
PadCell(cell, target_width, row_i) ==
    LET current_width == Width(cell)
        padding == IF target_width > current_width THEN target_width - current_width ELSE 0
    IN  IF padding = 0 THEN cell
        ELSE IF row_i = 1 THEN cell \o Repeat("-", padding)
        ELSE cell \o Repeat(" ", padding)

pad_cells_for_output(self) ==
    [self EXCEPT !.cells =
       [r \in 1..Len(self.cells) |->
          [k \in 1..Len(self.cells[r]) |->
             PadCell(self.cells[r][k], self.column_widths[k], r - 1)]]]

\* render_output
RenderRow(row) == <<"|", " ">> \o Join(row, <<" ", "|", " ">>) \o <<" ", "|", "\n">>
RenderSeparator(row) == <<"|", "-">> \o Join(row, <<"-", "|", "-">>) \o <<"-", "|", "\n">>

RECURSIVE RenderRows(_)
RenderRows(rows) ==
    IF rows = <<>> THEN <<>> ELSE RenderRow(Head(rows)) \o RenderRows(Tail(rows))

render_output(self) ==
    (IF self.cells # <<>> THEN RenderRow(self.cells[1]) ELSE <<>>)
    \o (IF Len(self.cells) > 1 THEN RenderSeparator(self.cells[2]) ELSE <<>>)
    \o (IF Len(self.cells) > 2 THEN RenderRows(SubSeq(self.cells, 3, Len(self.cells))) ELSE <<>>)

\* format_table without the reset of lines 186-188
ResetNothing(self) == self

\* format_table, lines 186-188: self.cells.clear(); self.column_widths.clear()
ResetState(self) == [cells |-> <<>>, column_widths |-> <<>>]

\* format_table, lines 224-230, on the validated table
ProcessAndRender(self) == [ret |-> Ok(render_output(self)), self |-> self]

\* format_table testing the sizes with >= where lines 208 has >
ValidateAndRenderCapsInclusive(self) ==
    IF Len(self.cells) < 2 THEN [ret |-> MissingSeparator, self |-> self]
    ELSE IF \/ Len(self.cells) >= MAX_ROWS
            \/ Len(self.column_widths) >= MAX_COLS
            \/ Len(self.cells) * Len(self.column_widths) >= MAX_CELLS
         THEN [ret |-> TableTooLarge(Len(self.cells), Len(self.column_widths)),
               self |-> self]
    ELSE IF ~is_separator_row(self, 1)
         THEN [ret |-> InvalidStructure("Row 2 is not a valid separator row"), self |-> self]
    ELSE ProcessAndRender(pad_cells_for_output(add_missing_cell_columns(get_column_widths(self))))

\* format_table, lines 198-230, on what import_table left
ValidateAndRender(self) ==
    IF Len(self.cells) < 2 THEN [ret |-> MissingSeparator, self |-> self]
    ELSE IF \/ Len(self.cells) > MAX_ROWS
            \/ Len(self.column_widths) > MAX_COLS
            \/ Len(self.cells) * Len(self.column_widths) > MAX_CELLS
         THEN [ret |-> TableTooLarge(Len(self.cells), Len(self.column_widths)),
               self |-> self]
    ELSE IF ~is_separator_row(self, 1)
         THEN [ret |-> InvalidStructure("Row 2 is not a valid separator row"), self |-> self]
    ELSE ProcessAndRender(pad_cells_for_output(add_missing_cell_columns(get_column_widths(self))))

\* format_table, line 196: self.import_table(table)?
Imported(imp) ==
    IF imp.err.kind # "none" THEN [ret |-> imp.err, self |-> imp.self]
    ELSE ValidateAndRender(imp.self)

\* format_table, lines 190-196, on the cleared instance
FormatCleared(self, table) ==
    IF Trim(table) = <<>> THEN [ret |-> EmptyInput, self |-> self]
    ELSE Imported(import_table(self, table))

\* format_table: [ret, self]
format_table(self, table) == FormatCleared(ResetState(self), table)

(***************************************************************************)
(* format_document                                                         *)
(***************************************************************************)
FENCE == <<BACKTICK, BACKTICK, BACKTICK>>

\* format_document, lines 101-102: the test that lets a line start a table
IsCandidate(line) ==
    \/ StartsWith(Trim(line), <<"|">>)
    \/ (Contains(line, "|") /\ ~StartsWith(Trim(line), FENCE))

\* try_format_table_at, lines 136-139: the index after the run of '|' lines
RECURSIVE ScanEnd(_, _)
ScanEnd(ls, end) ==
    IF end < Len(ls) /\ Contains(ls[end + 1], "|") THEN ScanEnd(ls, end + 1) ELSE end

\* try_format_table_at, lines 149-159: r is what format_table gave
Formatted(r, num_lines) ==
    IF r.ret.kind = "Ok"
    THEN [some |-> TRUE, num_lines |-> num_lines, formatted |-> r.ret.text, self |-> r.self]
    ELSE [some |-> FALSE, num_lines |-> 0, formatted |-> <<>>, self |-> r.self]

\* try_format_table_at counting one line less than the run it formats
FormatRunShort(self, ls, start, end) ==
    IF end = start
    THEN [some |-> FALSE, num_lines |-> 0, formatted |-> <<>>, self |-> self]
    ELSE Formatted(format_table(self, Join(SubSeq(ls, start + 1, end), <<"\n">>)),
                   end - start - 1)

\* try_format_table_at, lines 141-159: end is the index after the run
FormatRun(self, ls, start, end) ==
    IF end = start
    THEN [some |-> FALSE, num_lines |-> 0, formatted |-> <<>>, self |-> self]
    ELSE Formatted(format_table(self, Join(SubSeq(ls, start + 1, end), <<"\n">>)), end - start)

\* try_format_table_at: [some, num_lines, formatted, self]; start is 0-based
try_format_table_at(self, ls, start) ==
    IF start >= Len(ls)
    THEN [some |-> FALSE, num_lines |-> 0, formatted |-> <<>>, self |-> self]
    ELSE FormatRun(self, ls, start, ScanEnd(ls, start))

\* format_document, lines 112-115: the line is kept as it is
Verbatim(st, ls, self) ==
    [i |-> st.i + 1, output |-> st.output \o ls[st.i + 1] \o <<"\n">>, self |-> self]

\* format_document going on at the next line after a formatted block
SplicedAdvancingOne(st, ls, t) ==
    IF t.some
    THEN [i |-> st.i + 1, output |-> st.output \o t.formatted, self |-> t.self]
    ELSE [i |-> st.i + 1, output |-> st.output \o ls[st.i + 1] \o <<"\n">>, self |-> t.self]

\* format_document passing over the whole run of '|' lines when formatting fails
SplicedSkippingRun(st, ls, t) ==
    IF t.some
    THEN [i |-> st.i + t.num_lines, output |-> st.output \o t.formatted, self |-> t.self]
    ELSE [i |-> ScanEnd(ls, st.i),
          output |-> st.output
                       \o Join(SubSeq(ls, st.i + 1, ScanEnd(ls, st.i)), <<"\n">>) \o <<"\n">>,
          self |-> t.self]

\* format_document, lines 105-115: t is what try_format_table_at gave
Spliced(st, ls, t) ==
    IF t.some
    THEN [i |-> st.i + t.num_lines, output |-> st.output \o t.formatted, self |-> t.self]
    ELSE Verbatim(st, ls, t.self)

\* format_document, lines 97-116: one iteration of the while loop, on
\* st = [i, output, self]
ScanStep(st, ls) ==
    IF IsCandidate(ls[st.i + 1])
    THEN Spliced(st, ls, try_format_table_at(st.self, ls, st.i))
    ELSE Verbatim(st, ls, st.self)

\* format_document without the removal of lines 119-121
FinishOutputKeeping(document, out) == out

\* format_document, lines 118-123
FinishOutput(document, out) ==
    IF ~EndsWith(document, <<"\n">>) /\ EndsWith(out, <<"\n">>)
    THEN SubSeq(out, 1, Len(out) - 1)
    ELSE out

\* format_document as a whole, on a given instance: [ret, self]
RECURSIVE ScanAll(_, _)
ScanAll(st, ls) == IF st.i < Len(ls) THEN ScanAll(ScanStep(st, ls), ls) ELSE st

Finished(document, st) == [ret |-> FinishOutput(document, st.output), self |-> st.self]

format_document(self, document) ==
    Finished(document, ScanAll([i |-> 0, output |-> <<>>, self |-> self], Lines(document)))

(***************************************************************************)
(* The state machine: one TableFormatter instance and its callers.         *)
(***************************************************************************)
NoCall == [op |-> "none", text |-> <<>>]
NoResult == [kind |-> "none"]
Returned(text) == [kind |-> "String", text |-> text]

Fresh ==
    /\ cells = <<>>
    /\ column_widths = <<>>
    /\ pc = "idle"
    /\ call = NoCall
    /\ result = NoResult
    /\ prev = "none"
    /\ lines = <<>>
    /\ i = 0
    /\ output = <<>>

\* a method returns r = [ret, self]
Returns(r) ==
    /\ cells' = r.self.cells
    /\ column_widths' = r.self.column_widths
    /\ result' = r.ret

\* the loop of format_document goes on with st = [i, output, self]
Continues(st) ==
    /\ i' = st.i
    /\ output' = st.output
    /\ cells' = st.self.cells
    /\ column_widths' = st.self.column_widths

\* formatter.format_table(t)
FormatTableCall(t) ==
    /\ pc = "idle"
    /\ Returns(format_table([cells |-> cells, column_widths |-> column_widths], t))
    /\ call' = [op |-> "format_table", text |-> t]
    /\ prev' = result.kind
    /\ UNCHANGED <<pc, arg, lines, i, output>>

\* formatter.format_document(d): lines 93-95
FormatDocumentBegin(d) ==
    /\ pc = "idle"
    /\ call' = [op |-> "format_document", text |-> d]
    /\ result' = NoResult
    /\ prev' = result.kind
    /\ lines' = Lines(d)
    /\ i' = 0
    /\ output' = <<>>
    /\ pc' = "scan"
    /\ UNCHANGED <<cells, column_widths, arg>>

\* format_document: one iteration of the loop of lines 97-116
ScanLoop ==
    /\ pc = "scan"
    /\ i < Len(lines)
    /\ Continues(ScanStep([i |-> i, output |-> output,
                           self |-> [cells |-> cells, column_widths |-> column_widths]],
                          lines))
    /\ UNCHANGED <<pc, arg, call, result, prev, lines>>

\* format_document: the loop has ended; lines 118-123; the locals go away
FormatDocumentEnd ==
    /\ pc = "scan"
    /\ i >= Len(lines)
    /\ result' = Returned(FinishOutput(call.text, output))
    /\ pc' = "idle"
    /\ lines' = <<>>
    /\ i' = 0
    /\ output' = <<>>
    /\ UNCHANGED <<cells, column_widths, arg, call, prev>>

(***************************************************************************)
(* Inputs                                                                  *)
(***************************************************************************)
MaxLines == 3
MaxDocLines == 4
MaxReuseLines == 3

SeqsUpTo(S, n) == UNION {[1..k -> S] : k \in 0..n}

LF == <<"\n">>
CRLF == <<"\r", "\n">>

\* table lines: rows with and without boundary pipes, of 1 to 4 cells, with
\* empty, wide and zero-width cells; separators, valid and not; lines without '|'
TableLines ==
    { <<"|", "a", "|", "b", "|">>,
      <<"|", "-", "|", "-", "|">>,
      <<"a", "|", "b">>,
      <<"-", "|", "-">>,
      <<"-", "-", "|", "-">>,
      <<"|", " ", "-", "-", "-", " ", "|">>,
      <<"|", "c", "|">>,
      <<"c", "|", "|", "|", WIDE>>,
      <<"|", "e", COMBINING, "|", "c", "c", "c", "|">>,
      <<"|", "c", "c", "c", "|", WIDE, "|">>,
      <<"|", "a", "|", "b", "|", "c", "|">>,
      <<"|", "-", "|", "-", "|", "-", "|">>,
      <<"|", ":", "-", "|", "-", "|">>,
      <<"|">>,
      <<>>,
      <<" ">>,
      <<"x">> }

TableInputs == {Join(ls, LF) : ls \in SeqsUpTo(TableLines, MaxLines)}

\* a bare row of n cells, the first and the last not empty
WideRow(n) == <<"a">> \o Repeat("|", n - 1) \o <<"b">>

\* n more lines 'a|b', each after a newline
MoreRows(n) == [k \in 1..(4 * n) |-> <<"\n", "a", "|", "b">>[((k - 1) % 4) + 1]]

\* a table of the given number of rows: the header, the second row, rows 'a|b'
TallTable(header, second, rows) == header \o LF \o second \o MoreRows(rows - 2)

\* tables at each maximum and one above it: columns (two rows), cells (rows
\* times MAX_COLS columns), rows (two columns); a table at a maximum has a
\* second row that is no separator
WideInputs ==
    { WideRow(MAX_COLS) \o LF \o <<"x", "|", "-">>,
      WideRow(MAX_COLS + 1) \o LF \o <<"x", "|", "-">>,
      WideRow(MAX_COLS + 1) \o LF \o <<"-", "|", "-">>,
      TallTable(WideRow(MAX_COLS), <<"x", "|", "-">>, MAX_CELLS \div MAX_COLS),
      TallTable(WideRow(MAX_COLS), <<"-", "|", "-">>, MAX_CELLS \div MAX_COLS + 1),
      TallTable(<<"a", "|", "b">>, <<"x", "|", "-">>, MAX_ROWS),
      TallTable(<<"a", "|", "b">>, <<"-", "|", "-">>, MAX_ROWS + 1) }

\* document lines: fences, table rows, text
DocLines ==
    { FENCE,
      <<"|", "a", "|", "b", "|">>,
      <<"|", "-", "|", "-", "|">>,
      <<"-", "|", "-">>,
      FENCE \o <<"|", "a">>,
      <<"x">>,
      <<>> }

\* the documents of at most MaxDocLines lines, every line ended by eol but the
\* last, which is ended by eol or by nothing
DocsEndedBy(eol) ==
    {Join(ls, eol) \o final : ls \in SeqsUpTo(DocLines, MaxDocLines), final \in {<<>>, eol}}

DocInputs == DocsEndedBy(LF) \cup DocsEndedBy(CRLF)

ReuseLines ==
    { <<"|", "a", "|", "b", "|">>,
      <<"|", "-", "|", "-", "|">>,
      <<"x", "|", WIDE, "|", "c">> }

ReuseTexts == {Join(ls, LF) : ls \in SeqsUpTo(ReuseLines, MaxReuseLines)}

(***************************************************************************)
(* Spec: one instance, any sequence of calls.                              *)
(***************************************************************************)
Init == Fresh /\ arg = <<>>

Next ==
    \/ \E t \in ReuseTexts : FormatTableCall(t)
    \/ \E d \in ReuseTexts : FormatDocumentBegin(d)
    \/ ScanLoop
    \/ FormatDocumentEnd

Spec == Init /\ [][Next]_vars

(***************************************************************************)
(* SpecTable: format_table on a drawn input, then on its own output.       *)
(***************************************************************************)
InitTable == Fresh /\ arg \in TableInputs \cup WideInputs

FormatArg == call = NoCall /\ FormatTableCall(arg)

Reformat ==
    /\ call = [op |-> "format_table", text |-> arg]
    /\ result.kind = "Ok"
    /\ FormatTableCall(result.text)

NextTable == FormatArg \/ Reformat

SpecTable == InitTable /\ [][NextTable]_vars

(***************************************************************************)
(* SpecDoc: format_document on a drawn document.                           *)
(***************************************************************************)
InitDoc == Fresh /\ arg \in DocInputs

BeginArg == call = NoCall /\ FormatDocumentBegin(arg)

NextDoc == BeginArg \/ ScanLoop \/ FormatDocumentEnd

SpecDoc == InitDoc /\ [][NextDoc]_vars

(***************************************************************************)
(* Properties of format_table, checked under SpecTable                     *)
(***************************************************************************)
\* the number of characters c in s
CountOf(s, c) == Cardinality({k \in 1..Len(s) : s[k] = c})

\* the largest number of a non-empty finite set of numbers
MaxOf(S) == CHOOSE m \in S : \A x \in S : x <= m

\* the table a fresh formatter parses from a text: cells and widths after the
\* trimming of the edge columns, before any padding
Parsed(text) == import_table(NewFormatter, text).self

\* format_table has returned
TableReturned == pc = "idle" /\ call.op = "format_table"

\* C1: format_table applied to an output of format_table succeeds and returns
\* that output unchanged (idempotence), whatever the accepted input was.
\* Under SpecTable a call whose text differs from the drawn input is the call
\* that re-feeds the output of the first call.
C1_Idempotent ==
    (TableReturned /\ call.text # arg /\ prev = "Ok") => result = Ok(call.text)

\* C2: every line of a successful output holds exactly column_count + 1 pipe
\* characters, column_count being the number of columns left after the
\* trimming of the edge columns; there is one output line per parsed row, so
\* a row shorter than that has been completed.
C2_ColumnCount ==
    (TableReturned /\ result.kind = "Ok") =>
        /\ Len(column_widths) = Len(Parsed(call.text).column_widths)
        /\ Len(Lines(result.text)) = Len(Parsed(call.text).cells)
        /\ \A r \in 1..Len(Lines(result.text)) :
              CountOf(Lines(result.text)[r], "|") = Len(column_widths) + 1

\* C2 witness: a table of three columns with a data row parsed to fewer cells
\* has been formatted
C2_ShortRowCompleted ==
    /\ TableReturned
    /\ result.kind = "Ok"
    /\ Len(column_widths) = 3
    /\ Len(Parsed(call.text).cells[1]) = 3
    /\ \E r \in 3..Len(Parsed(call.text).cells) : Len(Parsed(call.text).cells[r]) < 3
    /\ C2_ColumnCount

\* C3: in a successful output every rendered cell is as wide, in display
\* columns, as its column, whose width is the largest display width of the
\* parsed cells of that column.  The rendered cells are read off the output:
\* between two pipes stand one space or dash, the cell, one space or dash.
C3_WidthInvariant ==
    (TableReturned /\ result.kind = "Ok") =>
        LET parsed == Parsed(call.text).cells
            out == Lines(result.text)
            n == Len(column_widths)
        IN  /\ \A j \in 1..n :
                  column_widths[j] =
                      MaxOf({Width(parsed[r][j]) :
                                r \in {q \in 1..Len(parsed) : j <= Len(parsed[q])}})
            /\ \A r \in 1..Len(out) :
                  /\ Len(Split(out[r], "|")) = n + 2
                  /\ \A j \in 1..n : Width(Split(out[r], "|")[j + 1]) = column_widths[j] + 2
            /\ \A r \in 1..Len(cells) : \A j \in 1..Len(cells[r]) :
                  Width(cells[r][j]) = column_widths[j]

\* C3 witness: a formatted table with a padded cell holding a wide character,
\* a padded cell holding a zero-width character and an added cell
C3_MixedWidthsPadded ==
    /\ TableReturned
    /\ result.kind = "Ok"
    /\ LET parsed == Parsed(call.text).cells
       IN  /\ \E r \in 1..Len(parsed) : \E j \in 1..Len(parsed[r]) :
                 Contains(parsed[r][j], WIDE) /\ Width(parsed[r][j]) < column_widths[j]
           /\ \E r \in 1..Len(parsed) : \E j \in 1..Len(parsed[r]) :
                 Contains(parsed[r][j], COMBINING) /\ Width(parsed[r][j]) < column_widths[j]
           /\ \E r \in 1..Len(parsed) : Len(parsed[r]) < Len(column_widths)
    /\ C3_WidthInvariant

\* C9: format_table fails with EmptyInput when the input is empty after
\* trimming, and also when it is not blank but no line of it holds a '|'.
C9_EmptyInput ==
    (TableReturned /\ (\/ Trim(call.text) = <<>>
                       \/ (/\ Trim(call.text) # <<>>
                           /\ \A k \in 1..Len(Lines(call.text)) :
                                 ~Contains(Lines(call.text)[k], "|"))))
        => result = EmptyInput

\* row 1 of a parsed table has no cell, an empty cell, or a cell with a
\* character other than '-'
BadRow1(parsed) ==
    \/ parsed[2] = <<>>
    \/ \E k \in 1..Len(parsed[2]) : parsed[2][k] = <<>>
    \/ \E k \in 1..Len(parsed[2]) : \E m \in 1..Len(parsed[2][k]) : parsed[2][k][m] # "-"

\* C10: for an input that parses to at least 2 rows within the size maxima,
\* format_table fails with InvalidStructure exactly when row 1, after the
\* trimming of the edge columns, has no cell, an empty cell or a cell with a
\* character other than '-', and succeeds otherwise.
C10_SeparatorValidation ==
    (/\ TableReturned
     /\ Contains(call.text, "|")
     /\ Len(Parsed(call.text).cells) >= 2
     /\ Len(Parsed(call.text).cells) <= MAX_ROWS
     /\ Len(Parsed(call.text).column_widths) <= MAX_COLS
     /\ Len(Parsed(call.text).cells) * Len(Parsed(call.text).column_widths) <= MAX_CELLS)
        => /\ result.kind = "InvalidStructure" <=> BadRow1(Parsed(call.text).cells)
           /\ ~BadRow1(Parsed(call.text).cells) => result.kind = "Ok"

\* C10 witness: an input of two rows whose second row is a data row has been
\* refused with InvalidStructure
C10_DataRowAsSeparator ==
    /\ TableReturned
    /\ Contains(call.text, "|")
    /\ Len(Parsed(call.text).cells) = 2
    /\ \E k \in 1..Len(Parsed(call.text).cells[2]) : Contains(Parsed(call.text).cells[2][k], "b")
    /\ result.kind = "InvalidStructure"

\* a line written with boundary pipes ('| a | b |') / written bare ('a | b')
Piped(line) ==
    Len(Trim(line)) >= 2 /\ StartsWith(Trim(line), <<"|">>) /\ EndsWith(Trim(line), <<"|">>)
Bare(line) ==
    Contains(line, "|") /\ ~StartsWith(Trim(line), <<"|">>) /\ ~EndsWith(Trim(line), <<"|">>)

\* the cells of a line as written: what stands between its pipes, trimmed
WrittenCells(line) ==
    LET pieces == Split(Trim(line), "|")
        inner == IF Piped(line) THEN SubSeq(pieces, 2, Len(pieces) - 1) ELSE pieces
    IN  [k \in 1..Len(inner) |-> Trim(inner[k])]

\* header and separator are well-formed and have the same number of cells:
\* no header cell is empty, every separator cell is a non-empty run of '-';
\* every line is a row, and all rows are written the same way
WellFormedHead(ls) ==
    /\ Len(ls) >= 2
    /\ (\A k \in 1..Len(ls) : Piped(ls[k])) \/ (\A k \in 1..Len(ls) : Bare(ls[k]))
    /\ Len(WrittenCells(ls[1])) = Len(WrittenCells(ls[2]))
    /\ \A k \in 1..Len(WrittenCells(ls[1])) : WrittenCells(ls[1])[k] # <<>>
    /\ \A k \in 1..Len(WrittenCells(ls[2])) :
          WrittenCells(ls[2])[k] # <<>> /\ AllDashes(WrittenCells(ls[2])[k])

\* C11: when header and separator are well-formed with the same number k of
\* cells, format_table succeeds whatever the number of cells of each data row,
\* with boundary pipes and bare, and every output line has the same number of
\* cells.
C11_InconsistentCellCounts ==
    (TableReturned /\ WellFormedHead(Lines(call.text))) =>
        /\ result.kind = "Ok"
        /\ \A r \in 1..Len(Lines(result.text)) :
              CountOf(Lines(result.text)[r], "|") = CountOf(Lines(result.text)[1], "|")

\* the separator line of the widths: '|-', one run of '-' per column as long
\* as the column is wide, joined by '-|-', then '-|'
SeparatorOf(widths) ==
    <<"|", "-">> \o Join([j \in 1..Len(widths) |-> Repeat("-", widths[j])], <<"-", "|", "-">>)
                 \o <<"-", "|">>

\* C12: the second line of a successful output is '|-', then one dash run per
\* column joined by '-|-', then '-|'; every dash run is non-empty, holds only
\* '-' and is as long as its column is wide, also for the columns the
\* separator row of the input had no cell for.
C12_SeparatorShape ==
    (TableReturned /\ result.kind = "Ok") =>
        /\ Lines(result.text)[2] = SeparatorOf(column_widths)
        /\ \A j \in 1..Len(column_widths) : column_widths[j] >= 1

\* rows, columns or cells above their maximum
AboveCaps(rows, cols) == rows > 100000 \/ cols > 1000 \/ rows * cols > 1000000

\* what C14 says of a call on an input parsed to the table t = [cells,
\* column_widths]
SizeCapsHold(t) ==
    /\ result.kind = "TableTooLarge" <=> AboveCaps(Len(t.cells), Len(t.column_widths))
    /\ result.kind = "TableTooLarge" =>
          /\ result = [kind |-> "TableTooLarge",
                       rows |-> Len(t.cells), cols |-> Len(t.column_widths),
                       max_rows |-> 100000, max_cols |-> 1000]
          /\ cells = t.cells
          /\ column_widths = t.column_widths

\* C14: for an input that parses to at least 2 rows, format_table fails with
\* TableTooLarge exactly when there are more than 100,000 rows, or more than
\* 1,000 columns, or more than 1,000,000 cells; the error carries the row and
\* column counts and the row and column maxima, and the cells are then as
\* they were parsed, neither completed nor padded.
C14_SizeCaps ==
    (TableReturned /\ Contains(call.text, "|") /\ Len(Parsed(call.text).cells) >= 2)
        => SizeCapsHold(Parsed(call.text))

\* the error of a table of the given numbers of rows and columns
TooLargeError(rows, cols) ==
    [kind |-> "TableTooLarge", rows |-> rows, cols |-> cols,
     max_rows |-> 100000, max_cols |-> 1000]

\* C14 witness: a table of 1,001 rows and 1,000 columns, within the row and
\* column maxima, has been refused for its 1,001,000 cells, its rows left as
\* they were parsed
C14_OneThousandCellsTooMany ==
    /\ TableReturned
    /\ Len(cells) = 1001
    /\ Len(column_widths) = 1000
    /\ result = TooLargeError(1001, 1000)
    /\ Len(cells[1]) = 1000
    /\ cells[2] = <<<<"-">>, <<"-">>>>
    /\ Len(cells[1001]) = 2
    /\ C14_SizeCaps

\* C14, the other maxima: a table of 100,001 rows and 2 columns has been
\* refused for its rows
C14_OneRowTooMany ==
    /\ TableReturned
    /\ Len(cells) = 100001
    /\ Len(column_widths) = 2
    /\ result = TooLargeError(100001, 2)

\* C14, the other maxima: a table of 2 rows and 1,001 columns has been
\* refused for its columns, whether or not its second row is a separator
C14_OneColumnTooMany ==
    /\ TableReturned
    /\ Len(cells) = 2
    /\ Len(column_widths) = 1001
    /\ cells[2][1] = <<"x">>
    /\ result = TooLargeError(2, 1001)

\* C14, at the maxima: tables of 100,000 rows, of 1,000 columns and of
\* 1,000,000 cells have been passed on to the test of the separator
C14_AtTheMaxima ==
    /\ TableReturned
    /\ result.kind = "InvalidStructure"
    /\ \/ Len(cells) = 100000 /\ Len(column_widths) = 2
       \/ Len(cells) = 2 /\ Len(column_widths) = 1000
       \/ Len(cells) = 1000 /\ Len(column_widths) = 1000

\* the widths a table has when every cell of its row 1 counts as one dash
WidthsWithOneDash(parsed, n) ==
    [j \in 1..n |->
        MaxOf({Width(parsed[r][j]) :
                  r \in {q \in 1..Len(parsed) : q # 2 /\ j <= Len(parsed[q])}}
              \cup {IF j <= Len(parsed[2]) THEN 1 ELSE 0})]

\* C15: the second line with a '|' is row 1 and each of its non-empty all-dash
\* cells is parsed to a single dash, also when lines without '|' lie between
\* the header line and the separator line; so the number of dashes of the
\* input separator does not change the widths of an accepted table.
C15_SeparatorNormalized ==
    (TableReturned /\ Contains(call.text, "|") /\ Len(Parsed(call.text).cells) >= 2) =>
        /\ \A k \in 1..Len(Parsed(call.text).cells[2]) :
              (/\ Parsed(call.text).cells[2][k] # <<>>
               /\ AllDashes(Parsed(call.text).cells[2][k]))
                  => Parsed(call.text).cells[2][k] = <<"-">>
        /\ result.kind = "Ok" =>
              column_widths = WidthsWithOneDash(Parsed(call.text).cells, Len(column_widths))

(***************************************************************************)
(* Properties of format_document, checked under SpecDoc                    *)
(***************************************************************************)
\* format_document has returned
DocReturned == pc = "idle" /\ call.op = "format_document"

\* a fenced-code-block delimiter line
IsFenceLine(line) == StartsWith(Trim(line), FENCE)

\* line k (0-based) lies between an opening fence line and its closing fence line
InsideFence(ls, k) ==
    /\ ~IsFenceLine(ls[k + 1])
    /\ Cardinality({q \in 1..k : IsFenceLine(ls[q])}) % 2 = 1
    /\ \E q \in (k + 2)..Len(ls) : IsFenceLine(ls[q])

\* C4: every line between an opening and a closing fence line is emitted
\* unchanged by the scan and is never part of a formatted table: an iteration
\* that passes such a line passes that line alone and appends it as it is.
C4_FencePreserved ==
    [][(pc = "scan" /\ i < Len(lines)) =>
          \A k \in i..(i' - 1) :
              InsideFence(lines, k) =>
                  (i' = i + 1 /\ output' = output \o lines[k + 1] \o LF)]_vars

\* C5: a document without any '|' is returned exactly as it was given.
C5_Passthrough ==
    (DocReturned /\ ~Contains(call.text, "|")) => result = Returned(call.text)

\* every line followed by a newline
RECURSIVE EachLine(_)
EachLine(ls) == IF ls = <<>> THEN <<>> ELSE Head(ls) \o LF \o EachLine(Tail(ls))

\* lines a..b (1-based) of ls hold no '|' / all hold a '|'
NoPipe(ls, a, b) == \A k \in a..b : ~Contains(ls[k], "|")
AllPipe(ls, a, b) == \A k \in a..b : Contains(ls[k], "|")

\* the document is p lines without '|', then the run B of the lines p+1..q
\* with '|' that format_table accepts, then lines without '|'
Embedded(ls, p, q) ==
    /\ p < q
    /\ NoPipe(ls, 1, p)
    /\ AllPipe(ls, p + 1, q)
    /\ NoPipe(ls, q + 1, Len(ls))
    /\ format_table(NewFormatter, Join(SubSeq(ls, p + 1, q), LF)).ret.kind = "Ok"

\* the leading lines, format_table(B), the trailing lines; the last newline
\* is there when the document ends with one
EmbeddedOutput(document, ls, p, q) ==
    LET whole == EachLine(SubSeq(ls, 1, p))
                   \o format_table(NewFormatter, Join(SubSeq(ls, p + 1, q), LF)).ret.text
                   \o EachLine(SubSeq(ls, q + 1, Len(ls)))
    IN  IF EndsWith(document, LF) THEN whole ELSE SubSeq(whole, 1, Len(whole) - 1)

\* C6 as stated: for lines without '|', then a maximal run B of '|' lines
\* that format_table accepts, then lines without '|', the output is the
\* leading lines, then format_table(B), then the trailing lines.
C6_EmbeddedTableAnyRun ==
    DocReturned =>
        \A p \in 0..Len(Lines(call.text)) : \A q \in 0..Len(Lines(call.text)) :
            Embedded(Lines(call.text), p, q) =>
                result = Returned(EmbeddedOutput(call.text, Lines(call.text), p, q))

\* C6 as amended: the same, for a run B whose first line is a candidate table
\* start (trimmed, it begins with '|', or it does not begin with a fence).
C6_EmbeddedTable ==
    DocReturned =>
        \A p \in 0..Len(Lines(call.text)) : \A q \in 0..Len(Lines(call.text)) :
            (Embedded(Lines(call.text), p, q) /\ IsCandidate(Lines(call.text)[p + 1])) =>
                result = Returned(EmbeddedOutput(call.text, Lines(call.text), p, q))

\* C6 witness: text, then a table of three rows, then text has been formatted
C6_TextTableText ==
    /\ DocReturned
    /\ Len(Lines(call.text)) = 4
    /\ Embedded(Lines(call.text), 1, 3)
    /\ IsCandidate(Lines(call.text)[2])
    /\ Lines(call.text)[1] # <<>>
    /\ Lines(call.text)[4] # <<>>
    /\ result = Returned(EmbeddedOutput(call.text, Lines(call.text), 1, 3))

\* the index after the maximal run of '|' lines that starts at line k (0-based)
RunEnd(ls, k) ==
    CHOOSE e \in k..Len(ls) :
        AllPipe(ls, k + 1, e) /\ (e = Len(ls) \/ ~Contains(ls[e + 1], "|"))

\* what a fresh format_table makes of that run
RunFormatted(ls, k) == format_table(NewFormatter, Join(SubSeq(ls, k + 1, RunEnd(ls, k)), LF)).ret

\* C7: format_document returns a text, never an error; when the block that
\* starts at a candidate line i is refused by format_table, line i alone is
\* appended as it is and the scan goes on at line i + 1; when it is accepted,
\* the formatted block is appended and the scan goes on after the block.
C7_FailedBlockFallsBack ==
    /\ [](DocReturned => result.kind = "String")
    /\ [][(pc = "scan" /\ i < Len(lines) /\ IsCandidate(lines[i + 1])) =>
            /\ pc' = "scan"
            /\ IF RunFormatted(lines, i).kind = "Ok"
               THEN /\ i' = RunEnd(lines, i)
                    /\ output' = output \o RunFormatted(lines, i).text
               ELSE /\ i' = i + 1
                    /\ output' = output \o lines[i + 1] \o LF]_vars

\* C7 witness: in one run of '|' lines the first line was refused and kept,
\* and the table that follows it has been formatted
C7_TableAfterRefusedLine ==
    /\ pc = "scan"
    /\ Len(lines) = 3
    /\ i = 3
    /\ AllPipe(lines, 1, 3)
    /\ IsCandidate(lines[1])
    /\ RunFormatted(lines, 0).kind = "InvalidStructure"
    /\ RunFormatted(lines, 1).kind = "Ok"
    /\ output = lines[1] \o LF \o RunFormatted(lines, 1).text

\* C13: the output of format_document ends with a newline if and only if the
\* document does; an empty document gives an empty output; when the document
\* ends with a table block and has no final newline, the output ends with the
\* formatted block less the newline of its last row.
C13_TrailingNewline ==
    DocReturned =>
        /\ EndsWith(result.text, LF) <=> EndsWith(call.text, LF)
        /\ call.text = <<>> => result.text = <<>>
        /\ \A p \in 0..Len(Lines(call.text)) :
              (/\ ~EndsWith(call.text, LF)
               /\ Embedded(Lines(call.text), p, Len(Lines(call.text)))
               /\ IsCandidate(Lines(call.text)[p + 1]))
                  => EndsWith(result.text \o LF,
                              format_table(NewFormatter,
                                           Join(SubSeq(Lines(call.text), p + 1,
                                                       Len(Lines(call.text))), LF)).ret.text)

\* C13 witness: a document of text and then a table, without a final newline,
\* has been returned ending with the closing pipe of the last row
C13_TableEndsDocument ==
    /\ DocReturned
    /\ ~EndsWith(call.text, LF)
    /\ Len(Lines(call.text)) = 3
    /\ Embedded(Lines(call.text), 1, 3)
    /\ IsCandidate(Lines(call.text)[2])
    /\ EndsWith(result.text, <<"|">>)
    /\ C13_TrailingNewline

\* one iteration of the scan: the index grows and stays within the lines;
\* the lines it passes are one line appended as it is, or one block of lines
\* with '|' that format_table accepts, appended formatted
ScanAdvances ==
    /\ i' > i
    /\ i' <= Len(lines)
    /\ IF i' = i + 1
       THEN output' = output \o lines[i + 1] \o LF
       ELSE /\ AllPipe(lines, i + 1, i')
            /\ format_table(NewFormatter, Join(SubSeq(lines, i + 1, i'), LF)).ret.kind = "Ok"
            /\ output' = output \o format_table(NewFormatter,
                                                Join(SubSeq(lines, i + 1, i'), LF)).ret.text

\* the index after the iteration the scan is about to make
NextIndex ==
    ScanStep([i |-> i, output |-> output,
              self |-> [cells |-> cells, column_widths |-> column_widths]], lines).i

\* C16: the scan of format_document ends for every document, the distance
\* Len(lines) - i to the end of the lines being a natural number that every
\* iteration makes smaller: in every state of the loop the next iteration is
\* defined and moves the line index forward, by 1 for a line kept as it is
\* and by the length of the block for a formatted block, never beyond the
\* number of lines; the iterations pass every line exactly once, as a line
\* kept or as part of one formatted block, and the scan ends with the index
\* at the number of lines.
C16_ScannerProgress ==
    /\ [](pc = "scan" => i \in 0..Len(lines))
    /\ []((pc = "scan" /\ i < Len(lines)) => NextIndex \in (i + 1)..Len(lines))
    /\ [][(pc = "scan" /\ i < Len(lines)) => ScanAdvances]_vars
    /\ [][(pc = "scan" /\ pc' = "idle") => i = Len(lines)]_vars

\* C16 witness: a scan of four lines is at its end after a line kept, a block
\* of two lines formatted and a line kept
C16_LineBlockLine ==
    /\ pc = "scan"
    /\ Len(lines) = 4
    /\ i = 4
    /\ ~Contains(lines[1], "|")
    /\ ~Contains(lines[4], "|")
    /\ AllPipe(lines, 2, 3)
    /\ format_table(NewFormatter, Join(SubSeq(lines, 2, 3), LF)).ret.kind = "Ok"
    /\ output = lines[1] \o LF
                  \o format_table(NewFormatter, Join(SubSeq(lines, 2, 3), LF)).ret.text
                  \o lines[4] \o LF

(***************************************************************************)
(* Properties of one instance used for several calls, checked under Spec   *)
(***************************************************************************)
\* C8: whatever calls came before on the instance, a call returns what the
\* same call returns on a fresh instance.
C8_ReuseContract ==
    /\ TableReturned => result = format_table(NewFormatter, call.text).ret
    /\ DocReturned => result = Returned(format_document(NewFormatter, call.text).ret)

\* C8 witness: after a call that failed, leaving cells behind, a call of
\* format_table has succeeded
C8_SuccessAfterFailure ==
    /\ TableReturned
    /\ prev = "InvalidStructure"
    /\ result.kind = "Ok"
    /\ Len(column_widths) = 2
    /\ C8_ReuseContract

====
